---- MODULE Spec2Model ----
(***************************************************************************)
(* A model of agari-datagen: the dummy dataset generator                   *)
(* (generate_dummy_tsv.py) and the bulk uploader (upload_files.py).        *)
(*                                                                         *)
(* Three specifications share the variables:                               *)
(*   Spec        main() of the generator, from the source directory to the *)
(*               cleanup, every step able to fail where the code can fail; *)
(*   SpecGen     generate_dummy_data() called on its own, its arguments    *)
(*               drawn from bounded sets;                                  *)
(*   SpecUpload  main() of the uploader.                                   *)
(*                                                                         *)
(* Random strings: generate_random_string() is a draw of 20 (12 for a file *)
(* name) alphanumerics.  A random field value or header is the token       *)
(* "rnd"; the random file names of one run are drawn from AllNames without *)
(* repetition, in any order (they decide the sorted order of the files).   *)
(***************************************************************************)
EXTENDS Integers, Sequences, FiniteSets, TLC

VARIABLES
    pc,               \* position of the running program
    caller,           \* who called generate_dummy_data: "main" or "direct"
    \* ---- generator: main()
    source_files,     \* the *.fasta / *.fa files of source_dir, sorted: <<lines>>
    file_mapping,     \* list of <<original_filename, new_filename>>
    temp_dir,         \* scratch directory: [exists, files: name -> lines written]
    log,              \* set of per-file error messages printed
    extracted,        \* file_mapping entries extract_headers_from_temp_dir has done
    full_fasta_list,  \* list of <<new_name, header>> extracted
    args_spread,      \* --spread: [given, n]
    selected_files,   \* all_unique_files[:spread]
    temp_tsv,         \* the NamedTemporaryFile(delete=False) exists on disk
    output_zip,       \* [exists, complete, fasta: set of arcnames]
    raised,           \* an exception left main()
    \* ---- generator: generate_dummy_data(schema, num_rows, fasta_list, spread_evenly)
    properties,       \* schema['properties'], in declaration order: <<[name, details]>>
    required,         \* schema['required']
    num_rows,
    fasta_arg,        \* the fasta_list argument as passed in
    spread_evenly,
    fasta_list,       \* the local fasta_list (reassigned by the interleaving)
    fasta_index,
    data,             \* rows appended so far
    returned,         \* generate_dummy_data has returned data
    \* ---- uploader
    folder,           \* what --folder names: "missing", "file" or "dir"
    files,            \* glob result filtered to regular files (any order)
    success_count,
    fail_count,
    requests,         \* upload_file calls made: <<[path, outcome]>>
    exit_code         \* process exit code, -1 while running

vars == << pc, caller, source_files, file_mapping, temp_dir, log, extracted,
           full_fasta_list,
           args_spread, selected_files, temp_tsv, output_zip, raised,
           properties, required, num_rows, fasta_arg, spread_evenly, fasta_list,
           fasta_index, data, returned,
           folder, files, success_count, fail_count, requests, exit_code >>

mainVars == << source_files, file_mapping, temp_dir, log, extracted, full_fasta_list,
               args_spread, selected_files, temp_tsv, output_zip, raised >>
genVars == << properties, required, num_rows, fasta_arg, spread_evenly, fasta_list,
              fasta_index, data, returned >>
upVars == << folder, files, success_count, fail_count, requests, exit_code >>

----------------------------------------------------------------------------
(* Bounds of the model *)

\* source files in source_dir (main)
MaxFiles == 2
\* lines of the files of source_dir together (main)
MaxLines == 2
\* largest num_rows
MaxRows == 2
\* entries of one file in a header list passed to generate_dummy_data
MaxGroup == 3
\* length of an arbitrary (ungrouped) header list passed to generate_dummy_data
MaxEntries == 2
\* files matched by the uploader's glob
MaxUploadFiles == 3

----------------------------------------------------------------------------
(* Values *)

\* File names, in sorted (lexicographic) order.
AllNames == << "A", "B", "C", "D", "E" >>

Rank(name) == CHOOSE i \in 1..Len(AllNames) : AllNames[i] = name

Min(a, b) == IF a < b THEN a ELSE b

\* A JSON / Python value of a row: a string, a number or a list of strings.
StrV(s) == [kind |-> "str", str |-> s, num |-> 0, items |-> << >>]
NumV(n) == [kind |-> "num", str |-> "", num |-> n, items |-> << >>]
ListV(l) == [kind |-> "list", str |-> "", num |-> 0, items |-> l]

\* Python truthiness: `not value`.
Falsy(v) ==
    \/ v.kind = "str" /\ v.str = ""
    \/ v.kind = "num" /\ v.num = 0
    \/ v.kind = "list" /\ v.items = << >>

\* What a TSV cell shows as empty: the empty string or the empty list.
Empty(v) ==
    \/ v.kind = "str" /\ v.str = ""
    \/ v.kind = "list" /\ v.items = << >>

\* A property descriptor.  has_enum: the 'enum' key is present.
Details(type, has_enum, enum, is_date, minimum, maximum, items_enum) ==
    [type |-> type, has_enum |-> has_enum, enum |-> enum, is_date |-> is_date,
     minimum |-> minimum, maximum |-> maximum, items_enum |-> items_enum]

\* {} : no key at all (type defaults to 'string', minimum 1, maximum 100).
NoDetails == Details("string", FALSE, << >>, FALSE, 1, 100, << >>)

SeqRange(s) == { s[i] : i \in DOMAIN s }

\* random.sample(population, k) for k in lo..hi: lists of distinct members.
Samples(population, lo, hi) ==
    { s \in UNION { [1..k -> SeqRange(population)] : k \in lo..hi } :
        \A i, j \in DOMAIN s : i # j => s[i] # s[j] }

generate_random_string == "rnd"

generate_random_date == "date"

\* The values generate_dummy_value(prop_details) can return.
generate_dummy_value(prop_details) ==
    IF prop_details.has_enum
    THEN { prop_details.enum[i] : i \in DOMAIN prop_details.enum }
    ELSE IF prop_details.type = "array"
    THEN IF prop_details.items_enum # << >>
         THEN { ListV(s) : s \in Samples(prop_details.items_enum, 1,
                                         Min(3, Len(prop_details.items_enum))) }
         ELSE { ListV([i \in 1..k |-> StrV(generate_random_string)]) : k \in 1..3 }
    ELSE IF prop_details.type = "string"
    THEN IF prop_details.is_date
         THEN { StrV(generate_random_date) }
         ELSE { StrV(generate_random_string) }
    ELSE IF prop_details.type \in {"number", "integer"}
    THEN { NumV(n) : n \in prop_details.minimum..prop_details.maximum }
    ELSE { StrV(generate_random_string) }

----------------------------------------------------------------------------
(* generate_dummy_data *)

FileOf(entry) == entry[1]
HeaderOf(entry) == entry[2]

\* file_groups: filename -> its entries, in list order.
file_groups(list) ==
    [ f \in { FileOf(list[i]) : i \in DOMAIN list } |->
        SelectSeq(list, LAMBDA e : FileOf(e) = f) ]

\* The names in reverse order.
ReverseSortedNames(names) ==
    LET up == SelectSeq(AllNames, LAMBDA n : n \in names)
    IN  [ i \in DOMAIN up |-> up[Len(up) + 1 - i] ]

\* sorted(file_groups.keys())
SortedNames(names) == SelectSeq(AllNames, LAMBDA n : n \in names)

MaxOf(S) == CHOOSE m \in S : \A x \in S : x <= m

\* One pass of the inner loop: the i-th (0-based) entry of every file that has one.
RECURSIVE InterleaveRound(_, _, _, _)
InterleaveRound(groups, names, k, i) ==
    IF k > Len(names) THEN << >>
    ELSE (IF i < Len(groups[names[k]]) THEN << groups[names[k]][i + 1] >> ELSE << >>)
         \o InterleaveRound(groups, names, k + 1, i)

RECURSIVE InterleaveFrom(_, _, _, _)
InterleaveFrom(groups, names, i, max_entries) ==
    IF i >= max_entries THEN << >>
    ELSE InterleaveRound(groups, names, 1, i)
         \o InterleaveFrom(groups, names, i + 1, max_entries)

interleaved_list(list) ==
    LET groups == file_groups(list)
        max_entries == MaxOf({ Len(groups[f]) : f \in DOMAIN groups })
    IN  InterleaveFrom(groups, SortedNames(DOMAIN groups), 0, max_entries)

\* The list the row loop consumes.
SpreadList(list, spread) ==
    IF spread /\ list # << >> THEN interleaved_list(list) ELSE list

Put(row, key, value) ==
    [ x \in (DOMAIN row) \cup {key} |-> IF x = key THEN value ELSE row[x] ]

\* The cursor after fasta_header_name has taken its value.
NextIndex(idx) == idx + 1

\* The loop over properties.items() of one row; vals[k] is the value drawn for
\* the k-th property when it is not one of the two special fields.
RECURSIVE RowFields(_, _, _, _, _, _)
RowFields(props, k, row, idx, list, vals) ==
    IF k > Len(props) THEN [row |-> row, fasta_index |-> idx]
    ELSE LET prop_name == props[k].name IN
         IF prop_name = "fasta_file_name"
         THEN RowFields(props, k + 1,
                  Put(row, prop_name,
                      IF list # << >>
                      THEN StrV(FileOf(list[(idx % Len(list)) + 1]))
                      ELSE StrV(generate_random_string)),
                  idx, list, vals)
         ELSE IF prop_name = "fasta_header_name"
         THEN IF list # << >>
              THEN RowFields(props, k + 1,
                       Put(row, prop_name, StrV(HeaderOf(list[(idx % Len(list)) + 1]))),
                       NextIndex(idx), list, vals)
              ELSE RowFields(props, k + 1,
                       Put(row, prop_name, StrV(generate_random_string)),
                       idx, list, vals)
         ELSE RowFields(props, k + 1, Put(row, prop_name, vals[k]), idx, list, vals)

\* properties.get(req, {})
DetailsOf(props, name) ==
    IF \E k \in DOMAIN props : props[k].name = name
    THEN props[CHOOSE k \in DOMAIN props : props[k].name = name].details
    ELSE NoDetails

\* The backfill test without its `not row[req]` half.
NeedsBackfillMissingOnly(row, req) == req \notin DOMAIN row

\* Whether the backfill loop replaces the value of req.
NeedsBackfill(row, req) == req \notin DOMAIN row \/ Falsy(row[req])

\* The loop over required; bvals[req] is the value drawn for req.
Backfill(row, req_set, bvals) ==
    [ x \in (DOMAIN row) \cup { r \in req_set : NeedsBackfill(row, r) } |->
        IF x \in req_set /\ NeedsBackfill(row, x) THEN bvals[x] ELSE row[x] ]

SpecialNames == {"fasta_file_name", "fasta_header_name"}

AllValues(props, req_set) ==
    UNION { generate_dummy_value(props[k].details) : k \in DOMAIN props }
    \cup UNION { generate_dummy_value(DetailsOf(props, r)) : r \in req_set }
    \cup { StrV(generate_random_string) }

\* The draws of one row for the ordinary properties.
ValueDraws(props, req_set) ==
    { v \in [DOMAIN props -> AllValues(props, req_set)] :
        \A k \in DOMAIN props :
            v[k] \in (IF props[k].name \in SpecialNames
                      THEN { StrV(generate_random_string) }
                      ELSE generate_dummy_value(props[k].details)) }

\* The draws of one row for the backfill.
BackfillDraws(props, req_set) ==
    { b \in [req_set -> AllValues(props, req_set)] :
        \A r \in req_set : b[r] \in generate_dummy_value(DetailsOf(props, r)) }

\* Lines 180-202: the cursor starts at 0 and the list is interleaved on demand.
GenEnter ==
    /\ pc = "gen_entry"
    /\ fasta_list' = SpreadList(fasta_arg, spread_evenly)
    /\ fasta_index' = 0
    /\ data' = << >>
    /\ pc' = "gen_loop"
    /\ UNCHANGED << caller, mainVars, upVars, properties, required, num_rows,
                    fasta_arg, spread_evenly, returned >>

\* Lines 204-227: one row.
GenRow ==
    /\ pc = "gen_loop"
    /\ Len(data) < num_rows
    /\ \E vals \in ValueDraws(properties, required),
          bvals \in BackfillDraws(properties, required) :
         LET built == RowFields(properties, 1, << >>, fasta_index, fasta_list, vals)
         IN  /\ data' = Append(data, Backfill(built.row, required, bvals))
             /\ fasta_index' = built.fasta_index
    /\ UNCHANGED << pc, caller, mainVars, upVars, properties, required, num_rows,
                    fasta_arg, spread_evenly, fasta_list, returned >>

\* Line 229.
GenReturn ==
    /\ pc = "gen_loop"
    /\ Len(data) >= num_rows
    /\ returned' = TRUE
    /\ pc' = IF caller = "main" THEN "main_rows" ELSE "gen_done"
    /\ UNCHANGED << caller, mainVars, upVars, properties, required, num_rows,
                    fasta_arg, spread_evenly, fasta_list, fasta_index, data >>

----------------------------------------------------------------------------
(* upload_files.py *)

StatusCodes == {200, 201, 204, 500}

\* The outcome of one upload_file call: open() or requests.post raised, or a
\* response with a status code came back.
Outcomes ==
    { [exc |-> TRUE, status |-> 0] }
    \cup { [exc |-> FALSE, status |-> s] : s \in StatusCodes }

SuccessCodes == {200, 201}

\* upload_file's return value.
upload_file(outcome) == ~outcome.exc /\ outcome.status \in SuccessCodes

\* Lists without repetition of the members of S: the orders glob can yield.
Orderings(S) ==
    { s \in [1..Cardinality(S) -> S] : \A i, j \in DOMAIN s : i # j => s[i] # s[j] }

\* sorted(files): paths are numbered in path order.
RECURSIVE SortedPaths(_)
SortedPaths(S) ==
    IF S = {} THEN << >>
    ELSE LET m == CHOOSE x \in S : \A y \in S : x <= y
         IN  << m >> \o SortedPaths(S \ {m})

sorted(list) == SortedPaths(SeqRange(list))

\* The loop over files as glob yielded them, without sorted().
LoopFileUnsorted(list, k) == list[k]

\* The file the loop takes at its k-th (1-based) iteration.
LoopFile(list, k) == sorted(list)[k]

\* Lines 62-64.
UpFolderMissing ==
    /\ pc = "up_start"
    /\ folder = "missing"
    /\ exit_code' = 1
    /\ pc' = "up_exit"
    /\ UNCHANGED << caller, mainVars, genVars, folder, files, success_count,
                    fail_count, requests >>

\* Lines 66-68.
UpFolderNotDir ==
    /\ pc = "up_start"
    /\ folder = "file"
    /\ exit_code' = 1
    /\ pc' = "up_exit"
    /\ UNCHANGED << caller, mainVars, genVars, folder, files, success_count,
                    fail_count, requests >>

\* Lines 71-72: the regular files matching the pattern, in the order glob yields.
UpList ==
    /\ pc = "up_start"
    /\ folder = "dir"
    /\ \E matched \in SUBSET (1..MaxUploadFiles) :
         \E order \in Orderings(matched) : files' = order
    /\ pc' = "up_listed"
    /\ UNCHANGED << caller, mainVars, genVars, folder, success_count, fail_count,
                    requests, exit_code >>

\* Lines 74-76.
UpNoFiles ==
    /\ pc = "up_listed"
    /\ files = << >>
    /\ exit_code' = 0
    /\ pc' = "up_exit"
    /\ UNCHANGED << caller, mainVars, genVars, folder, files, success_count,
                    fail_count, requests >>

\* Lines 78-83.
UpBegin ==
    /\ pc = "up_listed"
    /\ files # << >>
    /\ success_count' = 0
    /\ fail_count' = 0
    /\ pc' = "up_loop"
    /\ UNCHANGED << caller, mainVars, genVars, folder, files, requests, exit_code >>

\* Lines 85-89: one iteration, upload_file included.
UploadNext ==
    /\ pc = "up_loop"
    /\ Len(requests) < Len(files)
    /\ \E outcome \in Outcomes :
         /\ requests' = Append(requests,
                [path |-> LoopFile(files, Len(requests) + 1), outcome |-> outcome])
         /\ IF upload_file(outcome)
            THEN success_count' = success_count + 1 /\ fail_count' = fail_count
            ELSE fail_count' = fail_count + 1 /\ success_count' = success_count
    /\ UNCHANGED << pc, caller, mainVars, genVars, folder, files, exit_code >>

\* The exit status when a single failure is let through.
FinalExitLenient(failed) == IF failed > 1 THEN 1 ELSE 0

\* The exit status after the loop.
FinalExit(failed) == IF failed > 0 THEN 1 ELSE 0

\* Lines 91-95: sys.exit(1) on a failure, else the interpreter exits 0.
UpFinish ==
    /\ pc = "up_loop"
    /\ Len(requests) >= Len(files)
    /\ exit_code' = FinalExit(fail_count)
    /\ pc' = "up_exit"
    /\ UNCHANGED << caller, mainVars, genVars, folder, files, success_count,
                    fail_count, requests >>

UploadNextStep ==
    \/ UpFolderMissing
    \/ UpFolderNotDir
    \/ UpList
    \/ UpNoFiles
    \/ UpBegin
    \/ UploadNext
    \/ UpFinish

----------------------------------------------------------------------------
(* generate_dummy_tsv.py: create_randomized_fasta_files, *)
(* extract_headers_from_temp_dir and main                 *)

\* The lines a source file is made of: a header line, a line whose '>' follows
\* leading white space, a sequence line.
SourceLines == { ">orig", " >orig", "ACGT" }

SourceContents == UNION { [1..n -> SourceLines] : n \in 0..MaxLines }

RECURSIVE TotalLines(_)
TotalLines(dir) == IF dir = << >> THEN 0 ELSE Len(Head(dir)) + TotalLines(Tail(dir))

\* The source directories main is run on.
SourceDirs ==
    { dir \in UNION { [1..n -> SourceContents] : n \in 0..MaxFiles } :
        TotalLines(dir) <= MaxLines }

\* line.startswith('>')
StartsWithMarker(line) == line \in { ">orig", ">rnd" }

\* line.strip()
strip(line) == IF line = " >orig" THEN ">orig" ELSE line

\* line[1:] of a line that starts with '>'
HeaderText(line) == IF line = ">rnd" THEN "rnd" ELSE "orig"

\* Lines 69-76: headers replaced, every other line copied.
modified_lines(lines) ==
    [ i \in DOMAIN lines |->
        IF StartsWithMarker(lines[i]) THEN ">" \o generate_random_string ELSE lines[i] ]

\* Lines 97-103 over the lines read before the file ended or the read raised.
RECURSIVE HeadersOf(_, _, _)
HeadersOf(new_name, lines, k) ==
    IF k > Len(lines) THEN << >>
    ELSE (IF StartsWithMarker(strip(lines[k]))
          THEN << << new_name, HeaderText(strip(lines[k])) >> >>
          ELSE << >>)
         \o HeadersOf(new_name, lines, k + 1)

Prefix(seq, n) == SubSeq(seq, 1, n)

\* os.path.basename of the i-th source file in sorted order.
SourceName(i) == "src" \o ToString(i)

\* The random names not yet given to a file of this run.
FreshNames ==
    { AllNames[i] : i \in 1..MaxFiles } \ { file_mapping[i][2] : i \in DOMAIN file_mapping }

WriteFile(dir, name, lines) ==
    [ exists |-> dir.exists, files |-> Put(dir.files, name, lines) ]

NoDir == [ exists |-> FALSE, files |-> << >> ]

\* Lines 36-44: no source file, (None, []) comes back and main returns (line 253).
MainNoSource ==
    /\ pc = "main_start"
    /\ source_files = << >>
    /\ pc' = "main_end"
    /\ UNCHANGED << caller, mainVars, genVars, upVars >>

\* Lines 46-52: the scratch directory is made.
MainMkdtemp ==
    /\ pc = "main_start"
    /\ source_files # << >>
    /\ temp_dir' = [ exists |-> TRUE, files |-> << >> ]
    /\ pc' = "randomize"
    /\ UNCHANGED << caller, source_files, file_mapping, log, extracted, full_fasta_list,
                    args_spread, selected_files, temp_tsv, output_zip, raised,
                    genVars, upVars >>

\* Lines 55-83, one source file.  written = -1: the try block raised before the
\* copy was opened for writing; 0..Len(lines)-1: the write raised after that
\* many lines; Len(lines): the copy is complete.
RandomizeFile ==
    /\ pc = "randomize"
    /\ Len(file_mapping) < Len(source_files)
    /\ \E new_filename \in FreshNames :
         LET lines == source_files[Len(file_mapping) + 1] IN
         \E written \in -1..Len(lines) :
            /\ file_mapping' =
                   Append(file_mapping, << SourceName(Len(file_mapping) + 1), new_filename >>)
            /\ temp_dir' =
                   IF written = -1 THEN temp_dir
                   ELSE WriteFile(temp_dir, new_filename,
                                  Prefix(modified_lines(lines), written))
            /\ log' = IF written = Len(lines) THEN log
                      ELSE log \cup { << "processing", SourceName(Len(file_mapping) + 1) >> }
    /\ UNCHANGED << pc, caller, source_files, extracted, full_fasta_list, args_spread,
                    selected_files, temp_tsv, output_zip, raised, genVars, upVars >>

\* Lines 85, 251-258.
RandomizeReturn ==
    /\ pc = "randomize"
    /\ Len(file_mapping) >= Len(source_files)
    /\ pc' = "extract"
    /\ UNCHANGED << caller, mainVars, genVars, upVars >>

\* The entries extraction appends for one file: can_read = -1 is an open() that
\* raised, 0..Len-1 a read that raised after that many lines, Len a full read.
ExtractedEntries(new_name, lines, can_read) ==
    IF can_read = -1 THEN << >> ELSE HeadersOf(new_name, Prefix(lines, can_read), 1)

\* Lines 92-105, one entry of file_mapping.
ExtractFile ==
    /\ pc = "extract"
    /\ extracted < Len(file_mapping)
    /\ LET new_name == file_mapping[extracted + 1][2] IN
         IF new_name \in DOMAIN temp_dir.files
         THEN \E can_read \in -1..Len(temp_dir.files[new_name]) :
                /\ full_fasta_list' = full_fasta_list \o
                       ExtractedEntries(new_name, temp_dir.files[new_name], can_read)
                /\ log' = IF can_read = Len(temp_dir.files[new_name]) THEN log
                          ELSE log \cup { << "extracting", new_name >> }
         ELSE /\ full_fasta_list' = full_fasta_list
              /\ log' = log \cup { << "extracting", new_name >> }
    /\ extracted' = extracted + 1
    /\ UNCHANGED << pc, caller, source_files, file_mapping, temp_dir, args_spread,
                    selected_files, temp_tsv, output_zip, raised, genVars, upVars >>

\* Lines 107, 258-259.
ExtractReturn ==
    /\ pc = "extract"
    /\ extracted >= Len(file_mapping)
    /\ pc' = "extracted"
    /\ UNCHANGED << caller, mainVars, genVars, upVars >>

\* `if not full_fasta_list` (line 261)
NoEntries(list) == list = << >>

\* Lines 261-263: return, through the finally clause.
MainNoEntries ==
    /\ pc = "extracted"
    /\ NoEntries(full_fasta_list)
    /\ pc' = "main_finally"
    /\ UNCHANGED << caller, mainVars, genVars, upVars >>

\* The values --spread can take: absent, or an integer.
SpreadArgs ==
    { [given |-> FALSE, n |-> 0] } \cup { [given |-> TRUE, n |-> n] : n \in -1..MaxFiles }

\* seq[:n] of Python.
Slice(seq, n) ==
    IF n >= 0 THEN SubSeq(seq, 1, Min(n, Len(seq)))
    ELSE SubSeq(seq, 1, IF Len(seq) + n > 0 THEN Len(seq) + n ELSE 0)

\* Line 266.
all_unique_files(list) == SortedNames({ FileOf(list[i]) : i \in DOMAIN list })

\* Lines 270-275.
SelectFiles(list, arg) ==
    LET max_spread == Len(all_unique_files(list))
        spread == Min(IF arg.given THEN arg.n ELSE max_spread, max_spread)
    IN  Slice(all_unique_files(list), spread)

\* Line 279.
FilterEntries(list, selected) ==
    SelectSeq(list, LAMBDA entry : FileOf(entry) \in SeqRange(selected))

\* Lines 266-280: the files to use and their entries.
MainSelect ==
    /\ pc = "extracted"
    /\ ~NoEntries(full_fasta_list)
    /\ \E arg \in SpreadArgs :
         /\ args_spread' = arg
         /\ selected_files' = SelectFiles(full_fasta_list, arg)
         /\ fasta_arg' = FilterEntries(full_fasta_list, SelectFiles(full_fasta_list, arg))
    /\ pc' = "selected"
    /\ UNCHANGED << caller, source_files, file_mapping, temp_dir, log, extracted,
                    full_fasta_list, temp_tsv, output_zip, raised, properties, required,
                    num_rows, spread_evenly, fasta_list, fasta_index, data, returned,
                    upVars >>

Prop(name, details) == [name |-> name, details |-> details]

StringDetails == Details("string", FALSE, << >>, FALSE, 1, 100, << >>)
DateDetails == Details("string", FALSE, << >>, TRUE, 1, 100, << >>)
EnumDetails == Details("string", TRUE, << StrV("a"), StrV("") >>, FALSE, 1, 100, << >>)
EmptyEnumDetails == Details("string", TRUE, << >>, FALSE, 1, 100, << >>)
IntegerDetails == Details("integer", FALSE, << >>, FALSE, 0, 1, << >>)
ArrayDetails == Details("array", FALSE, << >>, FALSE, 1, 100, << StrV("a"), StrV("b") >>)
OtherDetails == Details("boolean", FALSE, << >>, FALSE, 1, 100, << >>)

FileProp == Prop("fasta_file_name", StringDetails)
HeaderProp == Prop("fasta_header_name", StringDetails)

Schema(props, req) == [properties |-> props, required |-> req]

\* The schemas main is run with.
MainSchemas ==
    { Schema(<< FileProp, HeaderProp >>, {"fasta_file_name", "fasta_header_name"}),
      Schema(<< HeaderProp, FileProp >>, {}),
      Schema(<< FileProp >>, {}),
      Schema(<< Prop("x", EnumDetails) >>, {"x"}),
      Schema(<< Prop("x", EmptyEnumDetails), FileProp >>, {}) }

\* Line 283: generate_dummy_data(schema, args.num_rows, fasta_list, spread_evenly=True).
\* The schema file and num_rows are read here, where main first uses them.
MainGenerate ==
    /\ pc = "selected"
    /\ \E schema \in MainSchemas, n \in -1..MaxRows :
         /\ properties' = schema.properties
         /\ required' = schema.required
         /\ num_rows' = n
    /\ spread_evenly' = TRUE
    /\ pc' = "gen_entry"
    /\ UNCHANGED << caller, mainVars, upVars, fasta_arg, fasta_list, fasta_index, data,
                    returned >>

\* random.choice of an empty enum raises inside generate_dummy_value: the
\* exception leaves generate_dummy_data (and reaches main's finally clause).
GenRaise ==
    /\ pc = "gen_loop"
    /\ Len(data) < num_rows
    /\ ValueDraws(properties, required) = {}
    /\ raised' = TRUE
    /\ pc' = IF caller = "main" THEN "main_finally" ELSE "gen_done"
    /\ UNCHANGED << caller, source_files, file_mapping, temp_dir, log, extracted,
                    full_fasta_list, args_spread, selected_files, temp_tsv, output_zip,
                    genVars, upVars >>

\* The test of line 285 never taken.
NoDataIgnored(rows) == FALSE

\* `if not data` (line 285)
NoData(rows) == rows = << >>

\* Lines 285-287: return, through the finally clause.
MainNoData ==
    /\ pc = "main_rows"
    /\ NoData(data)
    /\ pc' = "main_finally"
    /\ UNCHANGED << caller, mainVars, genVars, upVars >>

\* Where main goes when a step raised: the finally clause is the only handler.
OnError == "main_finally"

\* Lines 290-308.  The temporary file is made with delete=False: it stays when
\* writing into it raises.
MainWriteTsv ==
    /\ pc = "main_rows"
    /\ ~NoData(data)
    /\ \E outcome \in {"ok", "create_error", "write_error"} :
         /\ temp_tsv' = (outcome # "create_error")
         /\ raised' = (outcome # "ok")
         /\ pc' = IF outcome = "ok" THEN "zip" ELSE OnError
    /\ UNCHANGED << caller, source_files, file_mapping, temp_dir, log, extracted,
                    full_fasta_list, args_spread, selected_files, output_zip,
                    genVars, upVars >>

\* The selected files found in the scratch directory that a row names.
ArchivedFilesReferenced(selected, dir) ==
    { f \in SeqRange(selected) :
        /\ f \in DOMAIN dir.files
        /\ \E r \in DOMAIN data :
              /\ "fasta_file_name" \in DOMAIN data[r]
              /\ data[r]["fasta_file_name"].str = f }

\* Lines 316-321: the selected files found in the scratch directory.
ArchivedFiles(selected, dir) ==
    { f \in SeqRange(selected) : f \in DOMAIN dir.files }

\* Lines 311-321.  An archive left by a write that raised has no directory.
MainWriteZip ==
    /\ pc = "zip"
    /\ \E outcome \in {"ok", "open_error", "write_error"} :
         /\ output_zip' =
               [ exists |-> (outcome # "open_error"),
                 complete |-> (outcome = "ok"),
                 fasta |-> IF outcome = "ok"
                           THEN ArchivedFiles(selected_files, temp_dir) ELSE {} ]
         /\ raised' = (outcome # "ok")
         /\ pc' = IF outcome = "ok" THEN "unlink" ELSE OnError
    /\ UNCHANGED << caller, source_files, file_mapping, temp_dir, log, extracted,
                    full_fasta_list, args_spread, selected_files, temp_tsv,
                    genVars, upVars >>

\* Lines 323-328.
MainUnlink ==
    /\ pc = "unlink"
    /\ temp_tsv' = FALSE
    /\ pc' = "main_finally"
    /\ UNCHANGED << caller, source_files, file_mapping, temp_dir, log, extracted,
                    full_fasta_list, args_spread, selected_files, output_zip, raised,
                    genVars, upVars >>

\* Lines 330-334: shutil.rmtree(temp_dir), then the return or the exception.
MainFinally ==
    /\ pc = "main_finally"
    /\ temp_dir' = NoDir
    /\ pc' = "main_end"
    /\ UNCHANGED << caller, source_files, file_mapping, log, extracted,
                    full_fasta_list, args_spread, selected_files, temp_tsv, output_zip,
                    raised, genVars, upVars >>

----------------------------------------------------------------------------
(* Initial states and specifications *)

MainIdle ==
    /\ source_files = << >>
    /\ file_mapping = << >>
    /\ temp_dir = NoDir
    /\ log = {}
    /\ extracted = 0
    /\ full_fasta_list = << >>
    /\ args_spread = [given |-> FALSE, n |-> 0]
    /\ selected_files = << >>
    /\ temp_tsv = FALSE
    /\ output_zip = [exists |-> FALSE, complete |-> FALSE, fasta |-> {}]
    /\ raised = FALSE

GenIdle ==
    /\ properties = << >>
    /\ required = {}
    /\ num_rows = 0
    /\ fasta_arg = << >>
    /\ spread_evenly = FALSE
    /\ fasta_list = << >>
    /\ fasta_index = 0
    /\ data = << >>
    /\ returned = FALSE

UploadIdle ==
    /\ folder = "dir"
    /\ files = << >>
    /\ success_count = 0
    /\ fail_count = 0
    /\ requests = << >>
    /\ exit_code = -1

\* main() of the generator starts with some source directory.
Init ==
    /\ pc = "main_start"
    /\ caller = "main"
    /\ source_files \in SourceDirs
    /\ file_mapping = << >>
    /\ temp_dir = NoDir
    /\ log = {}
    /\ extracted = 0
    /\ full_fasta_list = << >>
    /\ args_spread = [given |-> FALSE, n |-> 0]
    /\ selected_files = << >>
    /\ temp_tsv = FALSE
    /\ output_zip = [exists |-> FALSE, complete |-> FALSE, fasta |-> {}]
    /\ raised = FALSE
    /\ GenIdle
    /\ UploadIdle

GenNext ==
    \/ GenEnter
    \/ GenRow
    \/ GenRaise
    \/ GenReturn

Next ==
    \/ MainNoSource
    \/ MainMkdtemp
    \/ RandomizeFile
    \/ RandomizeReturn
    \/ ExtractFile
    \/ ExtractReturn
    \/ MainNoEntries
    \/ MainSelect
    \/ MainGenerate
    \/ GenNext
    \/ MainNoData
    \/ MainWriteTsv
    \/ MainWriteZip
    \/ MainUnlink
    \/ MainFinally

Spec == Init /\ [][Next]_vars

\* The uploader starts with --folder naming anything.
InitUpload ==
    /\ pc = "up_start"
    /\ caller = "none"
    /\ MainIdle
    /\ GenIdle
    /\ folder \in {"missing", "file", "dir"}
    /\ files = << >>
    /\ success_count = 0
    /\ fail_count = 0
    /\ requests = << >>
    /\ exit_code = -1

SpecUpload == InitUpload /\ [][UploadNextStep]_vars

\* Header lists of any shape: up to MaxEntries entries of two files, a header
\* text possibly shared by both files or empty.
AnyLists ==
    UNION { [1..n -> {"A", "B"} \X {"h1", "h2", ""}] : n \in 0..MaxEntries }

\* The entries of one file, n of them, in line order.
Group(name, n) == [ i \in 1..n |-> << name, name \o ToString(i) >> ]

RECURSIVE Concat(_, _, _)
Concat(order, sizes, k) ==
    IF k > Len(order) THEN << >>
    ELSE Group(order[k], sizes[order[k]]) \o Concat(order, sizes, k + 1)

\* Header lists as extraction builds them: file after file, the files in any
\* order, up to MaxGroup entries each.
GroupedLists ==
    { Concat(order, sizes, 1) :
        order \in Orderings({"A", "B", "C"}),
        sizes \in [{"A", "B", "C"} -> 0..MaxGroup] }

\* Schemas over the two special fields, in every order, alone or around an
\* ordinary property.
PairSchemas ==
    { Schema(props, req) :
        props \in { << FileProp, HeaderProp >>, << HeaderProp, FileProp >>,
                    << FileProp >>, << HeaderProp >>,
                    << FileProp, Prop("x", StringDetails), HeaderProp >> },
        req \in { {}, {"fasta_header_name"}, {"fasta_file_name", "fasta_header_name"} } }

XDetails ==
    { StringDetails, DateDetails, EnumDetails, EmptyEnumDetails, IntegerDetails,
      ArrayDetails, OtherDetails, Details("array", FALSE, << >>, FALSE, 1, 100, << >>),
      Details("number", FALSE, << >>, FALSE, 1, 2, << >>) }

\* Schemas with an ordinary property of every kind, and required sets that
\* name declared and undeclared properties.
ValueSchemas ==
    { Schema(props, req) :
        props \in UNION { { << Prop("x", d) >>, << Prop("x", d), FileProp, HeaderProp >>,
                            << HeaderProp, Prop("x", d) >> } : d \in XDetails }
                  \cup { << >> },
        req \in { {}, {"x"}, {"y"}, {"x", "fasta_header_name"} } }

\* The arguments generate_dummy_data is called with.
GenInputs ==
    { [schema |-> sc, list |-> l, spread |-> sp] :
        sc \in PairSchemas, l \in AnyLists, sp \in BOOLEAN }
    \cup { [schema |-> sc, list |-> l, spread |-> sp] :
        sc \in ValueSchemas, l \in { << >>, << << "A", "h1" >> >>, << << "A", "" >> >> },
        sp \in {TRUE} }
    \cup { [schema |-> sc, list |-> l, spread |-> sp] :
        sc \in { Schema(<< FileProp, HeaderProp >>, {}) }, l \in GroupedLists,
        sp \in BOOLEAN }

\* generate_dummy_data called on its own.
InitGen ==
    /\ pc = "gen_entry"
    /\ caller = "direct"
    /\ MainIdle
    /\ UploadIdle
    /\ \E input \in GenInputs :
         /\ properties = input.schema.properties
         /\ required = input.schema.required
         /\ fasta_arg = input.list
         /\ spread_evenly = input.spread
    /\ num_rows \in -1..MaxRows
    /\ fasta_list = << >>
    /\ fasta_index = 0
    /\ data = << >>
    /\ returned = FALSE

SpecGen == InitGen /\ [][GenNext]_vars

----------------------------------------------------------------------------
(* Properties of the uploader *)

Succeeded(request) == ~request.outcome.exc /\ request.outcome.status \in {200, 201}

Uploaded(path) == \E i \in DOMAIN requests : requests[i].path = path /\ Succeeded(requests[i])

SomeUploadFailed == \E i \in DOMAIN requests : ~Succeeded(requests[i])

\* C5: when the uploader has exited, its exit code is 0 exactly when the folder
\* is a directory and every matched file was uploaded successfully (none
\* matched included), and 1 exactly when an upload failed or the folder does
\* not exist or is not a directory; with no matched file no upload is attempted.
C5_ExitCode ==
    pc = "up_exit" =>
        /\ exit_code \in {0, 1}
        /\ exit_code = 0 <=>
              (folder = "dir" /\ \A path \in SeqRange(files) : Uploaded(path))
        /\ exit_code = 1 <=> (folder # "dir" \/ SomeUploadFailed)
        /\ files = << >> => requests = << >>

\* Three files matched, one upload failed and two succeeded: exit code 1.
C5_Witness ==
    /\ pc = "up_exit"
    /\ Len(files) = 3
    /\ success_count = 2
    /\ fail_count = 1
    /\ exit_code = 1

SuccessesAmong(reqs) == Cardinality({ i \in DOMAIN reqs : Succeeded(reqs[i]) })

\* C6: the uploads made so far are of distinct matched files in increasing path
\* order, one call each, and the two counters add up to the calls made, the
\* success counter counting the 200/201 responses; when the uploader exits after
\* the loop every matched file has been attempted, whatever the outcomes were.
C6_EveryFileOnce ==
    /\ \A i, j \in DOMAIN requests : i < j => requests[i].path < requests[j].path
    /\ \A i \in DOMAIN requests : requests[i].path \in SeqRange(files)
    /\ pc \in {"up_loop", "up_exit"} /\ files # << >> =>
          /\ success_count + fail_count = Len(requests)
          /\ success_count = SuccessesAmong(requests)
    /\ pc = "up_exit" /\ folder = "dir" =>
          /\ Len(requests) = Len(files)
          /\ { requests[i].path : i \in DOMAIN requests } = SeqRange(files)

\* glob yielded three files out of order, the first upload raised, the second
\* got a 500 and the third a 201: all three were attempted.
C6_Witness ==
    /\ pc = "up_exit"
    /\ Len(files) = 3
    /\ files[1] > files[2]
    /\ requests[1].outcome.exc
    /\ requests[2].outcome.status = 500
    /\ requests[3].outcome.status = 201

----------------------------------------------------------------------------
(* Properties of generate_dummy_data *)

DeclaredNames == { properties[k].name : k \in DOMAIN properties }

Declares(name) == name \in DeclaredNames

\* The (file, header) pair a row carries.
PairOf(row) == << row["fasta_file_name"].str, row["fasta_header_name"].str >>

NoEmptyHeader(list) == \A i \in DOMAIN list : HeaderOf(list[i]) # ""

\* C1: when the schema declares both special fields, in whatever order, and the
\* header list passed in is not empty (and none of its headers is the empty
\* text), every row returned carries a (file, header) pair that is an entry of
\* that list.
C1_PairsExist ==
    (returned /\ Declares("fasta_file_name") /\ Declares("fasta_header_name")
        /\ fasta_arg # << >> /\ NoEmptyHeader(fasta_arg))
    => \A r \in DOMAIN data : PairOf(data[r]) \in SeqRange(fasta_arg)

\* The entry row r (1-based) is said to take its special fields from.
EntryOfRow(r) == fasta_list[((r - 1) % Len(fasta_list)) + 1]

\* C9: with a non-empty header list (no header of it the empty text) and a
\* schema declaring at least one of the two special fields, row r (0-based) has
\* its special fields from entry r mod L of the list the rows are taken from,
\* as a cursor advancing once per row gives them.
C9_CursorOncePerRow ==
    (returned /\ fasta_list # << >> /\ NoEmptyHeader(fasta_list)
        /\ (Declares("fasta_file_name") \/ Declares("fasta_header_name")))
    => \A r \in DOMAIN data :
             /\ Declares("fasta_file_name") =>
                   data[r]["fasta_file_name"] = StrV(FileOf(EntryOfRow(r)))
             /\ Declares("fasta_header_name") =>
                   data[r]["fasta_header_name"] = StrV(HeaderOf(EntryOfRow(r)))

\* An enum of the property that offers an empty value.
OffersEmpty(name) ==
    /\ DetailsOf(properties, name).has_enum
    /\ \E v \in SeqRange(DetailsOf(properties, name).enum) : Empty(v)

CountOf(entry, list) == Cardinality({ i \in DOMAIN list : list[i] = entry })

EntriesOfFile(list, name) == SelectSeq(list, LAMBDA e : FileOf(e) = name)

\* The round an entry of the list is taken in: how many entries of its own
\* file stand before it.
RoundOf(list, p) ==
    Cardinality({ q \in 1..(p - 1) : FileOf(list[q]) = FileOf(list[p]) })

FilesVisited(list) == [ i \in DOMAIN list |-> FileOf(list[i]) ]

\* C8: with spreading requested and a non-empty header list, the list the rows
\* are taken from is a permutation of the list passed in that keeps the order
\* of each file's own entries, takes the entries round after round, and within
\* a round takes the files in sorted-name order, a file without an entry left
\* being skipped; files of 3, 3 and 2 entries are visited A,B,C,A,B,C,A,B.
C8_RoundRobin ==
    (pc # "gen_entry" /\ spread_evenly /\ fasta_arg # << >>)
    => /\ \A e \in SeqRange(fasta_arg) \cup SeqRange(fasta_list) :
             CountOf(e, fasta_list) = CountOf(e, fasta_arg)
       /\ \A e \in SeqRange(fasta_arg) :
             EntriesOfFile(fasta_list, FileOf(e)) = EntriesOfFile(fasta_arg, FileOf(e))
       /\ \A p, q \in DOMAIN fasta_list :
             p < q =>
                \/ RoundOf(fasta_list, p) < RoundOf(fasta_list, q)
                \/ /\ RoundOf(fasta_list, p) = RoundOf(fasta_list, q)
                   /\ Rank(FileOf(fasta_list[p])) < Rank(FileOf(fasta_list[q]))
       /\ ( /\ Len(EntriesOfFile(fasta_arg, "A")) = 3
            /\ Len(EntriesOfFile(fasta_arg, "B")) = 3
            /\ Len(EntriesOfFile(fasta_arg, "C")) = 2
            /\ Len(fasta_arg) = 8 )
          => FilesVisited(fasta_list) = << "A", "B", "C", "A", "B", "C", "A", "B" >>

\* The list passed in holds C's two entries, then B's three, then A's three,
\* and has been interleaved.
C8_Witness ==
    /\ pc = "gen_loop"
    /\ spread_evenly
    /\ FilesVisited(fasta_arg) = << "C", "C", "B", "B", "B", "A", "A", "A" >>
    /\ FilesVisited(fasta_list) = << "A", "B", "C", "A", "B", "C", "A", "B" >>

----------------------------------------------------------------------------
(* Properties of the generator's main *)

\* The randomized files some row names in its fasta_file_name.
Referenced ==
    { data[r]["fasta_file_name"].str :
        r \in { i \in DOMAIN data : "fasta_file_name" \in DOMAIN data[i] } }

\* The randomized files that yielded at least one header.
FilesWithHeaders == { FileOf(full_fasta_list[i]) : i \in DOMAIN full_fasta_list }

\* C2 as stated (for a schema declaring fasta_file_name, then
\* fasta_header_name, and at least one selected file): when main has written
\* the archive, the sequence files in it are exactly the files some row
\* references.
C2_ArchiveIsReferenced ==
    (pc = "main_end" /\ output_zip.complete /\ selected_files # << >>
        /\ properties = << FileProp, HeaderProp >>)
    => output_zip.fasta = Referenced

\* How many files are selected: all with --spread absent, at most the number
\* asked for, and all but the last -n for a negative n.
SelectedCount ==
    LET available == Cardinality(FilesWithHeaders) IN
    IF ~args_spread.given THEN available
    ELSE IF args_spread.n >= 0 THEN Min(args_spread.n, available)
    ELSE IF available + args_spread.n > 0 THEN available + args_spread.n
    ELSE 0

\* C2 as amended: when main has written the archive, the sequence files in it
\* are exactly the selected files, which are the first SelectedCount, by sorted
\* name, of the files that yielded a header, whatever the row count; and when
\* a file is selected and the schema declares fasta_file_name, every file a row
\* references is in the archive.
C2_ArchiveIsSelected ==
    (pc = "main_end" /\ output_zip.complete)
    => /\ output_zip.fasta = SeqRange(selected_files)
       /\ Cardinality(output_zip.fasta) = SelectedCount
       /\ output_zip.fasta \subseteq FilesWithHeaders
       /\ \A f \in output_zip.fasta : \A g \in FilesWithHeaders \ output_zip.fasta :
             Rank(f) < Rank(g)
       /\ (selected_files # << >> /\ Declares("fasta_file_name"))
             => Referenced \subseteq output_zip.fasta

\* An archive with two sequence files was written for a single row.
C2_Witness ==
    /\ pc = "main_end"
    /\ output_zip.complete
    /\ Cardinality(output_zip.fasta) = 2
    /\ Len(data) = 1
    /\ Cardinality(Referenced) = 1

\* C3: when main has ended, the temporary TSV file and the scratch directory
\* are both gone, whether main returned or raised.
C3_TempGone ==
    pc = "main_end" => ~temp_tsv /\ ~temp_dir.exists

\* C7: when main has ended with no source file found, or no header extracted,
\* or no row returned by the row generator, no output archive exists and no
\* exception left main; in the last two cases the scratch directory, which was
\* made, is removed.
C7_CleanAbort ==
    pc = "main_end" =>
        /\ source_files = << >> => (~output_zip.exists /\ ~raised)
        /\ (source_files # << >> /\ full_fasta_list = << >>)
              => (~output_zip.exists /\ ~raised /\ ~temp_dir.exists)
        /\ (returned /\ data = << >>)
              => (~output_zip.exists /\ ~raised /\ ~temp_dir.exists)
        /\ (returned /\ num_rows <= 0) => data = << >>

\* main ended after headers were extracted and the row generator, asked for a
\* negative number of rows, returned none.
C7_Witness ==
    /\ pc = "main_end"
    /\ full_fasta_list # << >>
    /\ returned
    /\ num_rows < 0
    /\ data = << >>
    /\ file_mapping # << >>

\* Whether the k-th source file was logged as failed, by either function.
Failed(k) ==
    \/ << "processing", file_mapping[k][1] >> \in log
    \/ << "extracting", file_mapping[k][2] >> \in log

MappingIndex(new_name) ==
    CHOOSE k \in DOMAIN file_mapping : file_mapping[k][2] = new_name

\* C10: when extraction has returned, every source file has its entry in the
\* file mapping, the header list is in file-then-line order, it holds one entry
\* per header line of every file written and read without error, and no entry
\* of a file that was logged as failed.
C10_FailedFilesSkipped ==
    pc = "extracted" =>
        /\ Len(file_mapping) = Len(source_files)
        /\ \A p, q \in DOMAIN full_fasta_list :
              p < q => MappingIndex(FileOf(full_fasta_list[p]))
                           <= MappingIndex(FileOf(full_fasta_list[q]))
        /\ \A k \in DOMAIN file_mapping :
              IF Failed(k)
              THEN EntriesOfFile(full_fasta_list, file_mapping[k][2]) = << >>
              ELSE EntriesOfFile(full_fasta_list, file_mapping[k][2])
                       = HeadersOf(file_mapping[k][2],
                                   modified_lines(source_files[k]), 1)

====
